---------------------------- MODULE Spec2Model ----------------------------
(***************************************************************************)
(* Kinematic character controller (kcc.mjs + kccUtils.mjs).                *)
(*                                                                         *)
(* Numbers.  The program computes in IEEE doubles; the model computes in   *)
(* fixed point and rounds every division and square root to the nearest    *)
(* unit.  Lengths are integers in units of 1e-5 m (so 1 m = 100000),       *)
(* velocities in 1e-5 m/s, directions and contact normals in units of      *)
(* 1/100 (a unit vector has length 100), angles in 1/100 degree.           *)
(* EPS = 1e-8 is compared against lengths, squared lengths and squared     *)
(* direction lengths, so it appears as three scaled thresholds.            *)
(***************************************************************************)
EXTENDS Integers, Sequences, FiniteSets, TLC

(* ------------------------------ bounds -------------------------------- *)
MaxTicks == 2
MaxPlatformMoves == 1

(* ------------------------- vector arithmetic -------------------------- *)
Abs(x) == IF x < 0 THEN -x ELSE x

Max(a, b) == IF a > b THEN a ELSE b

Min(a, b) == IF a < b THEN a ELSE b

\* a / b rounded to the nearest integer (b > 0), as a double rounds a quotient
RDiv(a, b) == IF a >= 0 THEN (a + b \div 2) \div b ELSE -((-a + b \div 2) \div b)

RECURSIVE SqrtSearch(_, _, _)
SqrtSearch(n, lo, hi) ==
    IF lo >= hi THEN lo
    ELSE LET mid == (lo + hi + 1) \div 2
         IN IF mid * mid <= n THEN SqrtSearch(n, mid, hi)
            ELSE SqrtSearch(n, lo, mid - 1)

\* Math.sqrt, rounded to the nearest integer
Sqrt(n) == LET r == SqrtSearch(n, 0, 46340)
           IN IF n - r * r > r THEN r + 1 ELSE r

Zero == <<0, 0, 0>>
UP == <<0, 100, 0>>
DOWN == <<0, -100, 0>>
Unit == UP[2]

Add(a, b) == <<a[1] + b[1], a[2] + b[2], a[3] + b[3]>>
Sub(a, b) == <<a[1] - b[1], a[2] - b[2], a[3] - b[3]>>
Dot(a, b) == a[1] * b[1] + a[2] * b[2] + a[3] * b[3]
LengthSq(v) == Dot(v, v)
Length(v) == Sqrt(LengthSq(v))
\* v * (num / den), each component rounded
MulScalar(v, num, den) ==
    <<RDiv(v[1] * num, den), RDiv(v[2] * num, den), RDiv(v[3] * num, den)>>
\* Vec3.normalize: a zero vector stays zero; the result has length Unit
Normalize(v) == IF LengthSq(v) = 0 THEN v ELSE MulScalar(v, Unit, Length(v))

(* ------------------------------ kccUtils ------------------------------ *)
\* EPS = 1e-8 against a squared length (units of 1e-10 m^2)
EPS_SQ == 100
\* 1 / EPS against a length (units of 1e-5 m): x > EPS iff x * 1000 > 1
EPS_INV_LEN == 1000
\* 1 / EPS against a squared direction length (units of 1e-4)
EPS_INV_DIRSQ == 10000

LenGtEPS(x) == x * EPS_INV_LEN > 1
LenLtEPS(x) == x * EPS_INV_LEN < 1
SqGtEPS(q) == q > EPS_SQ
SqLtEPS(q) == q < EPS_SQ
DirSqGtEPS(q) == q * EPS_INV_DIRSQ > 1
DirSqLtEPS(q) == q * EPS_INV_DIRSQ < 1

clamp(v, lo, hi) == Max(lo, Min(hi, v))

\* mutant: the component is taken as if n had length 1 (no division by m)
projectOnPlaneUnit(v, n) ==
    LET m == LengthSq(n)
    IN IF DirSqLtEPS(m) THEN v
       ELSE LET dn == Dot(v, n)
            IN <<v[1] - RDiv(n[1] * dn, Unit * Unit),
                 v[2] - RDiv(n[2] * dn, Unit * Unit),
                 v[3] - RDiv(n[3] * dn, Unit * Unit)>>

\* v minus its component along n; n may have any length (n is in direction
\* units, v in any unit)
projectOnPlane(v, n) ==
    LET m == LengthSq(n)
    IN IF DirSqLtEPS(m) THEN v
       ELSE LET dn == Dot(v, n)
            IN <<v[1] - RDiv(n[1] * dn, m),
                 v[2] - RDiv(n[2] * dn, m),
                 v[3] - RDiv(n[3] * dn, m)>>

(* --------------------------- configuration ---------------------------- *)
\* KCC attributes (defaults of kcc.mjs) in model units
speed == 600000
gravity == -981000
jumpSpeed == 600000
\* airControl is the ratio AirControlNum / AirControlDen
airControl == <<1, 1>>
maxIterations == 5
skin == 1000
hover == 20000

(* --------------------------- the sweep oracle ------------------------- *)
\* sphereCast returns null (no hit) ...
NoHit == [entity |-> "null", hitFraction |-> <<0, 1>>, normal |-> Zero]

\* ... or a ConvexCastResult; hitFraction is <<numerator, denominator>>
Hit(e, n, f) == [entity |-> e, hitFraction |-> f, normal |-> n]

IsHit(h) == h.entity # "null"

\* contacts of the scene's colliders
Ground == Hit("ground", <<0, 100, 0>>, <<1, 2>>)
GroundEnd == Hit("ground", <<0, 100, 0>>, <<1, 1>>)
GroundRest == Hit("ground", <<0, 100, 0>>, <<0, 1>>)
Platform == Hit("platform", <<0, 100, 0>>, <<1, 2>>)
Ceiling == Hit("ceiling", <<0, -100, 0>>, <<1, 2>>)
WallX == Hit("wallX", <<-100, 0, 0>>, <<1, 2>>)
WallXEnd == Hit("wallX", <<-100, 0, 0>>, <<1, 1>>)
WallXb == Hit("wallXb", <<-99, 0, -14>>, <<1, 2>>)
WallZ == Hit("wallZ", <<0, 0, 100>>, <<1, 2>>)
Ramp == Hit("ramp", <<-80, 60, 0>>, <<1, 2>>)
\* contacts reported with a hit fraction outside [0, 1]
WallXOver == Hit("wallX", <<-100, 0, 0>>, <<11, 10>>)
WallXUnder == Hit("wallX", <<-100, 0, 0>>, <<-1, 10>>)

\* A scene says what the oracle can answer to a cast of each pass, and
\* whether the scene is explored for several updates or for one.
Open == {NoHit}
Obstacles == {NoHit, Ground, Ramp, Ceiling, WallX, WallXEnd, WallXb, WallZ}
Floor == {NoHit, Ground, Ramp, WallX}

\* arguments <<h, v, jump, yaw>> of setInput
Strafe == <<1, 0, FALSE, 0>>
Diagonal == <<1, -1, FALSE, 0>>
TurnJump == <<0, -1, TRUE, 90>>

\* frame times: dt = 1 / d seconds
SceneOpen ==
    [vert |-> Open, horiz |-> Open, snap |-> Open,
     inputs |-> {Strafe}, dtDens |-> {60, 400}, long |-> FALSE]
SceneVert ==
    [vert |-> Obstacles, horiz |-> Open, snap |-> Floor,
     inputs |-> {Strafe, Diagonal, TurnJump}, dtDens |-> {60}, long |-> FALSE]
SceneHoriz ==
    [vert |-> Open, horiz |-> Obstacles, snap |-> Floor,
     inputs |-> {Strafe, Diagonal, TurnJump}, dtDens |-> {60}, long |-> FALSE]
SceneLong ==
    [vert |-> {NoHit, GroundRest}, horiz |-> {NoHit, GroundEnd},
     snap |-> {NoHit, Ground}, inputs |-> {Strafe, TurnJump},
     dtDens |-> {60}, long |-> TRUE]
ScenePlatform ==
    [vert |-> {NoHit, Platform}, horiz |-> Open, snap |-> Open,
     inputs |-> {Strafe}, dtDens |-> {60}, long |-> TRUE]
SceneSteep ==
    [vert |-> {NoHit, Ramp}, horiz |-> Open, snap |-> Open,
     inputs |-> {Strafe}, dtDens |-> {60}, long |-> TRUE]
SceneRange ==
    [vert |-> Open, horiz |-> {NoHit, WallXOver, WallXUnder}, snap |-> Open,
     inputs |-> {Diagonal}, dtDens |-> {60}, long |-> FALSE]

\* A resting scene: one static flat ground plane at height groundY under the
\* agent, the casts answered by geometry, no input
SceneRest(y) ==
    [vert |-> {}, horiz |-> {}, snap |-> {}, inputs |-> {},
     dtDens |-> {10, 60}, long |-> TRUE, groundY |-> y]

\* slopeLimitDeg and groundSnap are attributes too; the model runs the
\* controller under these settings of the two, each in these scenes
Setups ==
    { [cfg |-> [slopeLimitDeg |-> 5000, groundSnap |-> 30000], scene |-> SceneOpen],
      [cfg |-> [slopeLimitDeg |-> 5000, groundSnap |-> 30000], scene |-> SceneVert],
      [cfg |-> [slopeLimitDeg |-> 9000, groundSnap |-> 30000], scene |-> SceneVert],
      [cfg |-> [slopeLimitDeg |-> 5000, groundSnap |-> 30000], scene |-> SceneHoriz],
      [cfg |-> [slopeLimitDeg |-> 9000, groundSnap |-> 30000], scene |-> SceneHoriz],
      [cfg |-> [slopeLimitDeg |-> 5000, groundSnap |-> 30000], scene |-> SceneLong],
      [cfg |-> [slopeLimitDeg |-> 5000, groundSnap |-> 30000], scene |-> ScenePlatform],
      [cfg |-> [slopeLimitDeg |-> 5000, groundSnap |-> 30000], scene |-> SceneSteep],
      [cfg |-> [slopeLimitDeg |-> 5000, groundSnap |-> 30000], scene |-> SceneRange],
      [cfg |-> [slopeLimitDeg |-> 5000, groundSnap |-> 30000], scene |-> SceneRest(0)],
      [cfg |-> [slopeLimitDeg |-> 5000, groundSnap |-> 30000], scene |-> SceneRest(-200)],
      [cfg |-> [slopeLimitDeg |-> 5000, groundSnap |-> 20500], scene |-> SceneRest(-9000)],
      [cfg |-> [slopeLimitDeg |-> 5000, groundSnap |-> 0], scene |-> SceneVert] }

(* ------------------------------ slope --------------------------------- *)
\* Math.acos(c) * 180 / Math.PI in 1/100 degree, c in direction units;
\* tabulated at the cosines the scene's normals have, linear in between
ACosDeg(c) ==
    CASE c = 100  -> 0
      [] c = 80   -> 3687
      [] c = 60   -> 5313
      [] c = 0    -> 9000
      [] c = -100 -> 18000
      [] OTHER    -> 9000 - 90 * c

SlopeDeg(normal) == ACosDeg(clamp(Dot(normal, UP) \div Unit, -Unit, Unit))

\* mutant: a contact exactly at the limit counts as walkable
WalkableInclusive(normal, limit) == SlopeDeg(normal) <= limit

\* walkable = slopeDeg < slopeLimitDeg
Walkable(normal, limit) == SlopeDeg(normal) < limit

(* ------------------------------- state -------------------------------- *)
VARIABLES
    cfg,              \* attributes slopeLimitDeg, groundSnap
    scene,            \* what the sweep oracle can answer
    entityPos,        \* this.entity.getPosition()
    entityYaw,        \* this.entity's rotation about Y, degrees
    velY,             \* this._velY
    horizontal,       \* this._horizontal
    vertical,         \* this._vertical
    jumpPressed,      \* this._jumpPressed
    yawDelta,         \* this._yawDelta
    grounded,         \* this._grounded
    wasGrounded,      \* this._wasGrounded
    groundEntity,     \* this._groundEntity ("null" when none)
    groundPrevPos,    \* this._groundPrevPos
    groundPrevRot,    \* this._groundPrevRot
    groundCandidate,  \* this._groundCandidate
    steepNormal,      \* this._steepNormal (<<>> when null)
    platform,         \* pose of the moving entity "platform"
    pc,               \* where update is: "idle", "vert", "horiz", "snap"
    pos,              \* update's local pos
    desiredHoriz,     \* update's local desiredHoriz
    remaining,        \* sweep's local remaining
    i,                \* sweep's loop counter
    wallN1,           \* sweep's local wallN1 (<<>> when null)
    wallN2,           \* sweep's local wallN2 (<<>> when null)
    hit,              \* answer of the latest sphereCast
    obs,              \* what happened in the current tick and pass
    ticks,            \* update calls completed
    moves             \* platform moves made

vars == <<cfg, scene, entityPos, entityYaw, velY, horizontal, vertical, jumpPressed,
          yawDelta, grounded, wasGrounded, groundEntity, groundPrevPos,
          groundPrevRot, groundCandidate, steepNormal, platform, pc, pos,
          desiredHoriz, remaining, i, wallN1, wallN2, hit, obs, ticks, moves>>

Null == <<>>

(* ------------------------------- sweep -------------------------------- *)
\* mutant: the loop test off by one (i <= maxIterations)
LoopGuardOffByOne(n, rem) == n <= maxIterations /\ ~SqLtEPS(LengthSq(rem))

\* for (let i = 0; i < maxIterations; ++i) { if (remaining.lengthSq() < EPS) break;
LoopGuard(n, rem) == n < maxIterations /\ ~SqLtEPS(LengthSq(rem))

\* remaining.mulScalar(1 - hit.hitFraction)
ScaleRest(rem, f) == MulScalar(rem, f[2] - f[1], f[2])

\* hitDist = clamp(hit.hitFraction * totalDist, 0, totalDist)
HitDist(f, totalDist) == clamp(RDiv(f[1] * totalDist, f[2]), 0, totalDist)

\* mutant: the step goes all the way to the contact
StepDistNoSkin(f, totalDist) == HitDist(f, totalDist)

\* stepDist = Math.max(hitDist - skin, 0)
StepDist(f, totalDist) == Max(HitDist(f, totalDist) - skin, 0)

\* if (stepDist > EPS) pos.add(dir.clone().mulScalar(stepDist))
StepTo(p, rem, f) ==
    LET totalDist == Length(rem)
        stepDist == StepDist(f, totalDist)
    IN IF LenGtEPS(stepDist) THEN Add(p, MulScalar(rem, stepDist, totalDist))
       ELSE p

\* landing: projectOnPlane(remaining.mulScalar(1 - f), normal), tiny y snapped
Landing(rem, h) ==
    LET r == projectOnPlane(ScaleRest(rem, h.hitFraction), h.normal)
    IN IF LenLtEPS(Abs(r[2])) THEN <<r[1], 0, r[3]>> ELSE r

\* mutant: the skin is subtracted along the normal
SteepSlideInward(rem, h) ==
    LET cosT == clamp(Dot(h.normal, UP) \div Unit, -Unit, Unit)
        sinT == Sqrt(Max(Unit * Unit - cosT * cosT, 0))
        slideDir == Normalize(projectOnPlane(DOWN, h.normal))
        f == h.hitFraction
        slideMag == RDiv(Abs(rem[2]) * sinT * (f[2] - f[1]), Unit * f[2])
    IN Sub(MulScalar(slideDir, slideMag, Unit), MulScalar(h.normal, skin, Unit))

\* steep: slideDir * slideMag + normal * skin
SteepSlide(rem, h) ==
    LET cosT == clamp(Dot(h.normal, UP) \div Unit, -Unit, Unit)
        sinT == Sqrt(Max(Unit * Unit - cosT * cosT, 0))
        slideDir == Normalize(projectOnPlane(DOWN, h.normal))
        f == h.hitFraction
        slideMag == RDiv(Abs(rem[2]) * sinT * (f[2] - f[1]), Unit * f[2])
    IN Add(MulScalar(slideDir, slideMag, Unit), MulScalar(h.normal, skin, Unit))

\* wallN = (normal.x, 0, normal.z), normalised unless degenerate
FlatNormal(normal) ==
    LET w == <<normal[1], 0, normal[3]>>
    IN IF DirSqGtEPS(LengthSq(w)) THEN Normalize(w) ELSE w

\* mutant: a normal at dot product 0.99 counts as a second wall
DistinctInclusive(wallN, first) == Dot(wallN, first) * 100 <= 99 * Unit * Unit

\* wallN.dot(wallN1) < 0.99
Distinct(wallN, first) == Dot(wallN, first) * 100 < 99 * Unit * Unit

\* mutant: the slide without the skin push-out
WallSlideNoPush(rem, f, lockN) == projectOnPlane(ScaleRest(rem, f), lockN)

\* projectOnPlane(remaining.mulScalar(1 - f), lockN) + lockN * skin
WallSlide(rem, f, lockN) ==
    Add(projectOnPlane(ScaleRest(rem, f), lockN), MulScalar(lockN, skin, Unit))

\* mutant: break on no hit without moving
MoveNotAtAll(p, rem) == p

\* no hit - move fully: pos.add(remaining)
MoveFully(p, rem) == Add(p, rem)

\* One pass of the loop body after the cast answered h.  s is the record of
\* everything the body reads and writes; brk says the body left by break.
SweepBody(s, h, isVerticalPass) ==
    IF ~IsHit(h) THEN [s EXCEPT !.pos = MoveFully(s.pos, s.remaining), !.brk = TRUE]
    ELSE
      LET p1 == StepTo(s.pos, s.remaining, h.hitFraction)
          walkable == Walkable(h.normal, s.slopeLimitDeg)
          s1 == [s EXCEPT !.pos = p1]
      IN IF isVerticalPass THEN
           IF s.remaining[2] > 0 THEN [s1 EXCEPT !.velY = 0, !.brk = TRUE]
           ELSE IF s.remaining[2] < 0 THEN
             IF walkable THEN
               [s1 EXCEPT !.grounded = TRUE, !.groundCandidate = h.entity,
                          !.velY = 0, !.remaining = Landing(s.remaining, h)]
             ELSE
               [s1 EXCEPT !.remaining = SteepSlide(s.remaining, h),
                          !.steepNormal = h.normal]
           ELSE s1
         ELSE
           IF walkable THEN
             [s1 EXCEPT !.grounded = TRUE, !.groundCandidate = h.entity,
                        !.remaining =
                            projectOnPlane(ScaleRest(s.remaining, h.hitFraction),
                                           h.normal)]
           ELSE
             LET wallN == FlatNormal(h.normal)
                 n1 == IF s.wallN1 = Null THEN wallN ELSE s.wallN1
                 n2 == IF s.wallN1 # Null /\ Distinct(wallN, s.wallN1)
                       THEN wallN ELSE s.wallN2
             IN IF n2 # Null
                THEN [s1 EXCEPT !.wallN1 = n1, !.wallN2 = n2, !.remaining = Zero]
                ELSE [s1 EXCEPT !.wallN1 = n1, !.wallN2 = n2,
                                !.remaining =
                                    WallSlide(s.remaining, h.hitFraction, n1)]

(* ------------------------------ entities ------------------------------ *)
\* rotation of v about the world Y axis by deg (a multiple of 90)
RotY(v, deg) ==
    LET d == deg % 360
    IN CASE d = 0   -> v
         [] d = 90  -> <<v[3], v[2], -v[1]>>
         [] d = 180 -> <<-v[1], v[2], -v[3]>>
         [] d = 270 -> <<-v[3], v[2], v[1]>>

\* entity.forward and entity.right of an entity that is only yawed
Forward(yaw) == RotY(<<0, 0, -100>>, yaw)
Right(yaw) == RotY(<<100, 0, 0>>, yaw)

\* Rotations of scene entities are 3x3 matrices (tuples of rows) with
\* entries in {-1, 0, 1}: the rotations by multiples of 90 degrees.
Identity == << <<1, 0, 0>>, <<0, 1, 0>>, <<0, 0, 1>> >>

\* Quat.setFromEulerAngles(0, deg, 0)
RotYM(deg) ==
    LET d == deg % 360
    IN CASE d = 0   -> Identity
         [] d = 90  -> << <<0, 0, 1>>, <<0, 1, 0>>, <<-1, 0, 0>> >>
         [] d = 180 -> << <<-1, 0, 0>>, <<0, 1, 0>>, <<0, 0, -1>> >>
         [] d = 270 -> << <<0, 0, -1>>, <<0, 1, 0>>, <<1, 0, 0>> >>

\* Quat.setFromEulerAngles(deg, 0, 0)
RotXM(deg) ==
    LET d == deg % 360
    IN CASE d = 0   -> Identity
         [] d = 90  -> << <<1, 0, 0>>, <<0, 0, -1>>, <<0, 1, 0>> >>
         [] d = 180 -> << <<1, 0, 0>>, <<0, -1, 0>>, <<0, 0, -1>> >>
         [] d = 270 -> << <<1, 0, 0>>, <<0, 0, 1>>, <<0, -1, 0>> >>

\* Quat.mul
MatMul(a, b) ==
    [r \in 1..3 |-> [c \in 1..3 |->
        a[r][1] * b[1][c] + a[r][2] * b[2][c] + a[r][3] * b[3][c]]]

\* Quat.invert of a rotation
Invert(a) == [r \in 1..3 |-> [c \in 1..3 |-> a[c][r]]]

\* getPosition / getRotation of a scene entity: only "platform" moves
Pose(e) == IF e = "platform" THEN platform ELSE [pos |-> Zero, rot |-> Identity]

\* the y, in degrees, of Quat.getEulerAngles: asin(2 (w y - x z)), which is
\* asin of minus the third row's first entry of the rotation's matrix
EulerY(m) == 90 * (-m[3][1])

(* --------------------------- observations ----------------------------- *)
PassRec0 ==
    [called |-> FALSE, casts |-> 0, hits |-> 0, start |-> Zero, disp |-> Zero,
     ret |-> Null]

Obs0 ==
    [vert |-> PassRec0, horiz |-> PassRec0, last |-> "none",
     startGrounded |-> FALSE, requested |-> FALSE, jumped |-> FALSE,
     velAfterGravity |-> 0, velAtSnap |-> 0,
     vertWalk |-> FALSE, horizWalk |-> FALSE,
     passGrounded |-> FALSE, afterPasses |-> Zero,
     snapCast |-> FALSE, snapWalk |-> FALSE, snapPull |-> 0,
     steep |-> Null, inputSet |-> FALSE, walkEntity |-> "null"]

(* ------------------------------- inputs ------------------------------- *)
\* what the scene does to the platform between two updates: a translation
\* and a rotation (yaw, yaw with pitch, half a turn of yaw, or none)
PlatformSteps == { <<5000, 0, 0>> }
PlatformTurns ==
    { Identity, RotYM(90), MatMul(RotYM(90), RotXM(90)), RotYM(180) }

(* -------------------------------- Init -------------------------------- *)
Init ==
    /\ \E su \in Setups : cfg = su.cfg /\ scene = su.scene
    /\ entityPos = Zero
    /\ entityYaw = 0
    /\ velY = 0
    /\ horizontal = 0
    /\ vertical = 0
    /\ jumpPressed = FALSE
    /\ yawDelta = 0
    /\ grounded = FALSE
    /\ wasGrounded = FALSE
    /\ groundEntity = "null"
    /\ groundPrevPos = Zero
    /\ groundPrevRot = Identity
    /\ groundCandidate = "null"
    /\ steepNormal = Null
    /\ platform = [pos |-> Zero, rot |-> Identity]
    /\ pc = "idle"
    /\ pos = Zero
    /\ desiredHoriz = Zero
    /\ remaining = Zero
    /\ i = 0
    /\ wallN1 = Null
    /\ wallN2 = Null
    /\ hit = NoHit
    /\ obs = Obs0
    /\ ticks = 0
    /\ moves = 0

\* updates explored in the scene
TickLimit == IF scene.long THEN MaxTicks ELSE 1

(* ------------------------------ setInput ------------------------------ *)
setInput(h, v, jump, yaw) ==
    /\ pc = "idle"
    /\ ticks < TickLimit
    /\ horizontal' = h
    /\ vertical' = v
    /\ jumpPressed' = jump
    /\ yawDelta' = yaw
    /\ obs' = [obs EXCEPT !.inputSet = TRUE]
    /\ UNCHANGED <<cfg, scene, entityPos, entityYaw, velY, grounded, wasGrounded,
                   groundEntity, groundPrevPos, groundPrevRot, groundCandidate,
                   steepNormal, platform, pc, pos, desiredHoriz, remaining, i,
                   wallN1, wallN2, hit, ticks, moves>>

\* the scene moves the platform between two updates
MovePlatform(dp, turn) ==
    /\ pc = "idle"
    /\ ticks < TickLimit
    /\ moves < MaxPlatformMoves
    /\ Platform \in scene.vert \cup scene.horiz \cup scene.snap
    /\ platform' = [pos |-> Add(platform.pos, dp),
                    rot |-> MatMul(turn, platform.rot)]
    /\ moves' = moves + 1
    /\ UNCHANGED <<cfg, scene, entityPos, entityYaw, velY, horizontal, vertical,
                   jumpPressed, yawDelta, grounded, wasGrounded, groundEntity,
                   groundPrevPos, groundPrevRot, groundCandidate, steepNormal,
                   pc, pos, desiredHoriz, remaining, i, wallN1, wallN2, hit,
                   obs, ticks>>

(* ------------------------- a geometric oracle -------------------------- *)
\* the scene is a resting scene
Resting == "groundY" \in DOMAIN scene

\* sphereCast from p along d over the flat ground of a resting scene: the
\* sphere, h above the ground, meets it at the fraction h / |d.y| of a
\* downward cast that reaches it
FlatCast(p, d) ==
    LET h == p[2] - scene.groundY
    IN IF d[2] < 0 /\ h + d[2] <= 0
       THEN Hit("ground", UP, <<Max(h, 0), -d[2]>>)
       ELSE NoHit

\* what the oracle can answer to a cast from p along d
Answers(p, d, given) == IF Resting THEN {FlatCast(p, d)} ELSE given

(* ------------------------------- update ------------------------------- *)
\* Math.abs(this._yawDelta) > EPS, the yaw being whole degrees
YawGtEPS(yaw) == Abs(yaw) >= 1

\* 2. follow moving ground
Follows == wasGrounded /\ groundEntity # "null"

\* mutant: a jump is triggered in the air too
JumpAnywhere == jumpPressed

\* 3. jump
JumpTriggered == grounded /\ jumpPressed

\* 4. horizontal input vector, for an entity yawed by yaw
HorizDir(yaw) ==
    IF horizontal # 0 \/ vertical # 0
    THEN Normalize(Add(MulScalar(Forward(yaw), -vertical, 1),
                       MulScalar(Right(yaw), horizontal, 1)))
    ELSE Zero

\* moveSpeed = grounded ? speed : speed * airControl
MoveSpeed(onGround) ==
    IF onGround THEN speed ELSE RDiv(speed * airControl[1], airControl[2])

\* 6. clamp uphill component when on steep slope
ClampUphill(dH) ==
    IF steepNormal = Null THEN dH
    ELSE LET upDir == Normalize(projectOnPlane(UP, steepNormal))
             uphill == Dot(dH, upDir)
         IN IF uphill > 0 THEN Sub(dH, MulScalar(upDir, uphill, Unit * Unit))
            ELSE dH

\* mutant: the grounded flag is not reset before the passes
GroundedKept == grounded /\ ~(grounded /\ jumpPressed)

\* 7. this._grounded = false, before the two passes
GroundedBeforePasses == FALSE

\* if (Math.abs(desiredVert) > EPS) pos = sweep(..., true)
VertCalled(dV) == LenGtEPS(Abs(dV))

\* if (desiredHoriz.lengthSq() > EPS) pos = sweep(..., false)
HorizCalled(dH) == SqGtEPS(LengthSq(dH))

\* a sweep call that starts at p with displacement d
PassRec(p, d) ==
    [called |-> TRUE, casts |-> 0, hits |-> 0, start |-> p, disp |-> d,
     ret |-> IF LoopGuard(0, d) THEN Null ELSE p]

\* steps 1-7 of update, up to the first cast
UpdateBegin(dtDen) ==
    /\ pc = "idle"
    /\ ticks < TickLimit
    /\ LET yaw1 == IF YawGtEPS(yawDelta) THEN (entityYaw + yawDelta) % 360
                   ELSE entityYaw
           gp == Pose(groundEntity).pos
           gr == Pose(groundEntity).rot
           deltaRot == MatMul(gr, Invert(groundPrevRot))
           yawDeg == EulerY(deltaRot)
           rel == RotY(Sub(entityPos, groundPrevPos), yawDeg)
           yaw2 == IF Follows THEN (yaw1 + yawDeg) % 360 ELSE yaw1
           p == IF Follows THEN Add(gp, rel) ELSE entityPos
           jump == JumpTriggered
           vel1 == IF jump THEN jumpSpeed ELSE velY
           g1 == IF jump THEN FALSE ELSE grounded
           dH == ClampUphill(MulScalar(HorizDir(yaw2),
                                       RDiv(MoveSpeed(g1), dtDen), Unit))
           vel2 == vel1 + RDiv(gravity, dtDen)
           dV == RDiv(vel2, dtDen)
           vDisp == <<0, dV, 0>>
           vertLoops == VertCalled(dV) /\ LoopGuard(0, vDisp)
           horizLoops == HorizCalled(dH) /\ LoopGuard(0, dH)
       IN /\ yawDelta' = IF YawGtEPS(yawDelta) THEN 0 ELSE yawDelta
          /\ entityYaw' = yaw2
          /\ entityPos' = p
          /\ jumpPressed' = FALSE
          /\ velY' = vel2
          /\ desiredHoriz' = dH
          /\ pos' = p
          /\ grounded' = GroundedBeforePasses
          /\ groundCandidate' = "null"
          /\ pc' = IF vertLoops THEN "vert"
                   ELSE IF horizLoops THEN "horiz" ELSE "snap"
          /\ remaining' = IF vertLoops THEN vDisp
                          ELSE IF HorizCalled(dH) THEN dH ELSE Zero
          /\ i' = 0
          /\ wallN1' = Null
          /\ wallN2' = Null
          /\ obs' = [Obs0 EXCEPT
                       !.startGrounded = grounded,
                       !.requested = jumpPressed,
                       !.jumped = jump,
                       !.velAfterGravity = vel2,
                       !.vert = IF VertCalled(dV) THEN PassRec(p, vDisp)
                                ELSE PassRec0,
                       !.horiz = IF ~vertLoops /\ HorizCalled(dH)
                                 THEN PassRec(p, dH) ELSE PassRec0]
    /\ UNCHANGED <<cfg, scene, horizontal, vertical, wasGrounded, groundEntity,
                   groundPrevPos, groundPrevRot, steepNormal, platform, hit,
                   ticks, moves>>

\* one iteration of sweep's loop: the cast, its answer h, the loop body, and
\* the loop test that follows; when the pass returns, update goes on to the
\* horizontal pass or to the ground snap
SweepStep(h) ==
    /\ pc \in {"vert", "horiz"}
    /\ LET isVerticalPass == pc = "vert"
           s == [pos |-> pos, remaining |-> remaining, velY |-> velY,
                 grounded |-> grounded, groundCandidate |-> groundCandidate,
                 steepNormal |-> steepNormal, wallN1 |-> wallN1,
                 wallN2 |-> wallN2, slopeLimitDeg |-> cfg.slopeLimitDeg,
                 brk |-> FALSE]
           t == SweepBody(s, h, isVerticalPass)
           again == ~t.brk /\ LoopGuard(i + 1, t.remaining)
           horizNext == isVerticalPass /\ HorizCalled(desiredHoriz)
           horizLoops == horizNext /\ LoopGuard(0, desiredHoriz)
           walk == IsHit(h) /\ SlopeDeg(h.normal) < cfg.slopeLimitDeg
           rec == IF isVerticalPass THEN obs.vert ELSE obs.horiz
           rec1 == [rec EXCEPT !.casts = @ + 1,
                               !.hits = IF IsHit(h) THEN @ + 1 ELSE @,
                               !.ret = IF again THEN Null ELSE t.pos]
       IN /\ hit' = h
          /\ pos' = t.pos
          /\ velY' = t.velY
          /\ grounded' = t.grounded
          /\ groundCandidate' = t.groundCandidate
          /\ steepNormal' = t.steepNormal
          /\ pc' = IF again THEN pc ELSE IF horizLoops THEN "horiz" ELSE "snap"
          /\ remaining' = IF ~again /\ horizNext THEN desiredHoriz
                          ELSE t.remaining
          /\ i' = IF again THEN i + 1 ELSE IF horizNext THEN 0 ELSE i
          /\ wallN1' = IF ~again /\ horizNext THEN Null ELSE t.wallN1
          /\ wallN2' = IF ~again /\ horizNext THEN Null ELSE t.wallN2
          /\ obs' = IF isVerticalPass
                    THEN [obs EXCEPT
                            !.vert = rec1,
                            !.last = "vert",
                            !.vertWalk = @ \/ (walk /\ remaining[2] < 0),
                            !.walkEntity = IF walk /\ remaining[2] < 0
                                           THEN h.entity ELSE @,
                            !.steep = IF t.steepNormal # Null
                                      THEN t.steepNormal ELSE @,
                            !.horiz = IF ~again /\ horizNext
                                      THEN PassRec(t.pos, desiredHoriz) ELSE @]
                    ELSE [obs EXCEPT
                            !.horiz = rec1,
                            !.last = "horiz",
                            !.horizWalk = @ \/ walk,
                            !.walkEntity = IF walk THEN h.entity ELSE @]
    /\ UNCHANGED <<cfg, scene, entityPos, entityYaw, horizontal, vertical, jumpPressed,
                   yawDelta, wasGrounded, groundEntity, groundPrevPos,
                   groundPrevRot, platform, desiredHoriz, ticks, moves>>

\* mutant: the probe is attempted even when a pass grounded the agent
SnapCondAlways == velY < 0 /\ cfg.groundSnap > 0

\* 8. ground-snap is attempted
SnapCond == ~grounded /\ velY < 0 /\ cfg.groundSnap > 0

\* pos.y -= clamp(snapHit.hitFraction * groundSnap, 0, groundSnap)
SnapPull(f) == clamp(RDiv(f[1] * cfg.groundSnap, f[2]), 0, cfg.groundSnap)

\* mutant: the velocity is left as it is
VelKept(g, v) == v

\* 11. if (this._grounded && this._velY < 0) this._velY = 0
VelWhenGrounded(g, v) == IF g /\ v < 0 THEN 0 ELSE v

\* mutant: an airborne tick keeps the remembered ground
RememberedKept(g, cand) == IF g THEN cand ELSE groundEntity

\* 12. remember ground: this._groundEntity
RememberedGround(g, cand) == IF g THEN cand ELSE "null"

\* line 137 and steps 8-12 of update; h is the snap cast's answer when the
\* cast is issued
FinishWith(issued, h) ==
    LET snapOk == issued /\ IsHit(h) /\ Walkable(h.normal, cfg.slopeLimitDeg)
        pull == IF snapOk THEN SnapPull(h.hitFraction) ELSE 0
        p1 == <<pos[1], pos[2] - pull, pos[3]>>
        g1 == grounded \/ snapOk
        cand == IF snapOk THEN h.entity ELSE groundCandidate
        p2 == IF g1 THEN Add(p1, MulScalar(UP, hover, Unit)) ELSE p1
    IN /\ steepNormal' = Null
       /\ hit' = h
       /\ grounded' = g1
       /\ groundCandidate' = cand
       /\ entityPos' = p2
       /\ velY' = VelWhenGrounded(g1, velY)
       /\ groundEntity' = RememberedGround(g1, cand)
       /\ groundPrevPos' = IF g1 /\ cand # "null" THEN Pose(cand).pos
                           ELSE groundPrevPos
       /\ groundPrevRot' = IF g1 /\ cand # "null" THEN Pose(cand).rot
                           ELSE groundPrevRot
       /\ wasGrounded' = g1
       /\ obs' = [obs EXCEPT
                    !.last = IF issued THEN "snap" ELSE @,
                    !.passGrounded = grounded,
                    !.velAtSnap = velY,
                    !.afterPasses = pos,
                    !.snapCast = issued,
                    !.snapWalk = issued /\ IsHit(h)
                                 /\ SlopeDeg(h.normal) < cfg.slopeLimitDeg,
                    !.walkEntity =
                        IF issued /\ IsHit(h)
                           /\ SlopeDeg(h.normal) < cfg.slopeLimitDeg
                        THEN h.entity ELSE @,
                    !.snapPull = pull]
       /\ pc' = "idle"
       /\ pos' = Zero
       /\ desiredHoriz' = Zero
       /\ remaining' = Zero
       /\ i' = 0
       /\ wallN1' = Null
       /\ wallN2' = Null
       /\ ticks' = ticks + 1
       /\ UNCHANGED <<cfg, scene, entityYaw, horizontal, vertical, jumpPressed,
                      yawDelta, platform, moves>>

Finish ==
    /\ pc = "snap"
    /\ IF SnapCond
       THEN \E h \in Answers(pos, <<0, -cfg.groundSnap, 0>>, scene.snap) :
               FinishWith(TRUE, h)
       ELSE FinishWith(FALSE, hit)

(* -------------------------------- Spec -------------------------------- *)
Next ==
    \/ \E in \in scene.inputs : setInput(in[1], in[2], in[3], in[4])
    \/ \E dp \in PlatformSteps, turn \in PlatformTurns : MovePlatform(dp, turn)
    \/ \E dtDen \in scene.dtDens : UpdateBegin(dtDen)
    \/ pc \in {"vert", "horiz"}
          /\ \E h \in Answers(pos, remaining, scene[pc]) : SweepStep(h)
    \/ Finish

Spec == Init /\ [][Next]_vars

(* ------------------------------- claims ------------------------------- *)
Passes == {obs.vert, obs.horiz}

\* C1: a sweep call issues at most maxIterations casts, whatever the oracle
\* answers; a pass still running has issued fewer than maxIterations casts
\* (one per loop iteration), and a pass that has issued maxIterations casts
\* has returned, with the position reached so far.
C1_BoundedCasts ==
    /\ \A r \in Passes :
          /\ r.casts <= maxIterations
          /\ r.hits <= r.casts
          /\ (r.casts = maxIterations => r.ret # Null)
    /\ (pc \in {"vert", "horiz"} => i < maxIterations)
    /\ (pc = "vert" => obs.vert.casts = i /\ obs.vert.ret = Null)
    /\ (pc = "horiz" => obs.horiz.casts = i /\ obs.horiz.ret = Null)
    /\ (pc = "snap" /\ obs.horiz.called => pos = obs.horiz.ret)
    /\ (pc = "snap" /\ ~obs.horiz.called /\ obs.vert.called => pos = obs.vert.ret)

\* C1 witness: a horizontal pass in which every one of the maxIterations
\* casts reported a hit has returned
C1_Witness ==
    /\ obs.horiz.casts = maxIterations
    /\ obs.horiz.hits = maxIterations
    /\ pc = "snap"

\* C2 as claimed: every pass update calls in open space (no hit reported)
\* returns start + d exactly, d being the displacement handed to it.
C2_Original ==
    \A r \in Passes :
        r.called /\ r.hits = 0 /\ r.ret # Null
            => r.ret = Add(r.start, r.disp)

\* C2: a pass whose displacement has squared length of at least 1e-8, so
\* that a cast is issued, and whose cast is answered "no hit" returns
\* start + d exactly; a pass called with a shorter displacement issues no
\* cast and returns its start.
C2_OpenSpaceIdentity ==
    /\ \A r \in Passes :
        r.called /\ r.casts >= 1 /\ r.hits = 0 /\ r.ret # Null
            => r.ret = Add(r.start, r.disp)
    /\ \A r \in Passes :
        r.called /\ r.casts = 0 /\ r.ret # Null
            => SqLtEPS(LengthSq(r.disp)) /\ r.ret = r.start

\* C2 witness: both passes ran in open space and each returned start + d
C2_Witness ==
    /\ pc = "snap"
    /\ \A r \in Passes : r.casts = 1 /\ r.hits = 0 /\ r.disp # Zero
    /\ pos = Add(Add(obs.vert.start, obs.vert.disp), obs.horiz.disp)

\* a step that issues a cast: a loop iteration of a pass, or the snap probe
CastStep == pc \in {"vert", "horiz"} \/ (pc = "snap" /\ obs'.snapCast)

\* C3: a contact is walkable iff its angle from up is strictly below
\* slopeLimitDeg.  A cast answered with a contact at or above the limit
\* changes neither grounded nor the ground candidate; grounded is set only by
\* a contact below the limit; and a contact below the limit sets grounded and
\* the candidate in the horizontal pass, in the snap probe, and in the
\* vertical pass while moving down.
C3_SlopeBoundary ==
    [][CastStep /\ IsHit(hit') =>
        LET below == SlopeDeg(hit'.normal) < cfg.slopeLimitDeg
        IN /\ (~below => grounded' = grounded
                         /\ groundCandidate' = groundCandidate)
           /\ (grounded' /\ ~grounded => below)
           /\ (below /\ (pc # "vert" \/ remaining[2] < 0)
                 => grounded' /\ groundCandidate' = hit'.entity)]_vars

\* C3 witness: the snap probe hit a surface exactly at the limit and the
\* tick ended airborne
C3_Witness ==
    /\ pc = "idle"
    /\ obs.last = "snap"
    /\ IsHit(hit)
    /\ SlopeDeg(hit.normal) = cfg.slopeLimitDeg
    /\ ~grounded

\* a horizontal-pass iteration whose cast reports a non-walkable contact
HorizWallStep ==
    /\ pc = "horiz"
    /\ IsHit(hit')
    /\ SlopeDeg(hit'.normal) >= cfg.slopeLimitDeg

\* ... whose flattened normal has dot product < 0.99 with the first wall normal
SecondWall ==
    /\ wallN1 # Null
    /\ Dot(FlatNormal(hit'.normal), wallN1) * 100 < 99 * Unit * Unit

\* C4: in a horizontal pass, a non-walkable contact whose flattened normal
\* has dot product < 0.99 with the first recorded wall normal zeroes the
\* remaining displacement and ends the pass at the position of that contact
\* (no further cast); a non-walkable contact that is the first one, or whose
\* flattened normal has dot product >= 0.99 with the first, records no second
\* normal.
C4_CornerLock ==
    [][HorizWallStep =>
        /\ (SecondWall => /\ remaining' = Zero
                          /\ wallN2' # Null
                          /\ pc' = "snap"
                          /\ obs'.horiz.ret = pos'
                          /\ obs'.horiz.casts = obs.horiz.casts + 1
                          /\ pos' = StepTo(pos, remaining, hit'.hitFraction))
        /\ (~SecondWall => wallN2' = Null /\ wallN1' # Null)]_vars

\* C4 witness: the pass met a wall, then a near-parallel one (no lock), then
\* a distinct one, and locked before using up its iterations
C4_Witness ==
    /\ pc = "snap"
    /\ wallN2 # Null
    /\ remaining = Zero
    /\ wallN1 = <<-100, 0, 0>>
    /\ ~grounded
    /\ obs.horiz.casts = 3
    /\ obs.horiz.hits = 3
    /\ hit.entity = "wallZ"

\* the first wall contact of a horizontal pass, with a flattened normal that
\* is not degenerate
FirstWallStep ==
    /\ HorizWallStep
    /\ wallN1 = Null
    /\ FlatNormal(hit'.normal) # Zero

\* the part of v tangential to the wall of normal n
Tangential(v, n) == projectOnPlane(v, n)

\* C5 as claimed: after a single wall contact with normal n the remaining
\* displacement has zero component along n, and a nonzero tangential
\* component whenever the displacement before the contact had one.
C5_Original ==
    [][FirstWallStep =>
        LET n == FlatNormal(hit'.normal)
        IN /\ Dot(remaining', n) = 0
           /\ (Tangential(remaining, n) # Zero
                 => Tangential(remaining', n) # Zero)]_vars

\* C5 amended: after a single wall contact with flattened normal n the
\* remaining displacement has the component +skin along n (the push-out,
\* pointing away from the wall; exact up to one unit of rounding per
\* coordinate) and none into the wall, and a nonzero tangential component
\* whenever the displacement before the contact had one and the hit
\* fraction is below 1.
C5_SingleWallSlide ==
    [][FirstWallStep =>
        LET n == FlatNormal(hit'.normal)
            f == hit'.hitFraction
        IN /\ Abs(Dot(remaining', n) - skin * Unit) <= 2 * Unit
           /\ (Tangential(remaining, n) # Zero /\ f[1] < f[2]
                 => Tangential(remaining', n) # Zero)]_vars

\* C5 witness: the pass slid along one wall met at an angle
C5_Witness ==
    /\ pc = "horiz"
    /\ obs.horiz.casts = 1
    /\ hit.entity = "wallX"
    /\ wallN1 = <<-100, 0, 0>>
    /\ remaining[1] = -skin
    /\ remaining[3] # 0

\* the end of an update
TickEnd == pc = "idle" /\ ticks > 0

\* C6: the ground-snap probe is issued in a tick only if, after both passes,
\* the agent is not grounded, its vertical velocity is negative and
\* groundSnap > 0; in a tick where a pass produced grounded no probe is
\* issued and the committed position is the passes' position plus hover.
C6_SnapPrecondition ==
    TickEnd =>
        /\ (obs.snapCast => /\ ~obs.passGrounded
                            /\ obs.velAtSnap < 0
                            /\ cfg.groundSnap > 0)
        /\ (obs.last = "snap" <=> obs.snapCast)
        /\ (obs.passGrounded =>
               /\ ~obs.snapCast
               /\ obs.snapPull = 0
               /\ entityPos = Add(obs.afterPasses, <<0, hover, 0>>))

\* C6 witness: the horizontal pass grounded a falling agent, so no probe
C6_Witness ==
    /\ TickEnd
    /\ obs.passGrounded
    /\ obs.velAtSnap < 0
    /\ cfg.groundSnap > 0
    /\ ~obs.snapCast

\* C7: at the end of every tick the agent is grounded iff in that tick a
\* walkable contact was observed in the vertical pass while moving down, or
\* in the horizontal pass, or by the snap probe - whatever the footing was
\* when the tick started.
C7_FootingStateMachine ==
    TickEnd =>
        /\ (grounded <=> obs.vertWalk \/ obs.horizWalk \/ obs.snapWalk)
        /\ wasGrounded = grounded

\* C7 witness: a tick that started grounded met no walkable contact and
\* ended airborne
C7_Witness ==
    /\ TickEnd
    /\ obs.startGrounded
    /\ ~obs.jumped
    /\ ~grounded

\* C8 as claimed: a tick in which a jump is triggered ends airborne.
C8_Original == TickEnd /\ obs.jumped => ~grounded

\* the step that starts an update
UpdateStarts == pc = "idle" /\ pc' # "idle"

\* C9: a jump is triggered only by a pending request consumed while
\* grounded; an update started airborne changes the vertical velocity by
\* gravity alone, request or not; every update clears the request, which
\* only setInput raises again, so a request triggers at most one jump.
C9_JumpOnlyGrounded ==
    [][/\ (UpdateStarts =>
              /\ (obs'.jumped <=> grounded /\ jumpPressed)
              /\ ~jumpPressed'
              /\ (~grounded =>
                    \E d \in scene.dtDens : velY' = velY + RDiv(gravity, d))
              /\ (obs'.jumped =>
                    \E d \in scene.dtDens : velY' = jumpSpeed + RDiv(gravity, d)))
       /\ (~UpdateStarts => obs'.jumped = obs.jumped)
       /\ (jumpPressed' /\ ~jumpPressed => pc = "idle" /\ pc' = "idle")]_vars

\* C9 witness: a request was consumed in the air by one update, and the
\* next update, started grounded with no new request, did not jump
C9_Witness ==
    /\ TickEnd
    /\ ticks = 2
    /\ obs.startGrounded
    /\ ~obs.requested
    /\ ~obs.jumped
    /\ entityYaw = 90

\* C10: at the end of every tick a grounded agent has no negative vertical
\* velocity.
C10_GroundedVelocity == TickEnd /\ grounded => velY >= 0

\* C10 witness: the agent was falling when the tick grounded it, and ends
\* the tick with zero vertical velocity
C10_Witness ==
    /\ TickEnd
    /\ grounded
    /\ obs.velAtSnap < 0
    /\ velY = 0

\* C11 as claimed: when the follower runs and the platform's rotation since
\* the snapshot is a yaw of th degrees, the agent is placed at the platform's
\* position plus its offset from the platform's previous position rotated by
\* th about Y, and the agent is turned by th (after its own input yaw).
C11_Original ==
    [][UpdateStarts /\ Follows =>
         LET gp == Pose(groundEntity).pos
             deltaRot == MatMul(Pose(groundEntity).rot, Invert(groundPrevRot))
         IN \A th \in {0, 90, 180, 270} :
               deltaRot = RotYM(th) =>
                  /\ entityPos' = Add(gp, RotY(Sub(entityPos, groundPrevPos), th))
                  /\ entityYaw' = (entityYaw + yawDelta + th) % 360]_vars

\* C12 as claimed: when the vertical pass of the previous tick met a steep
\* contact while moving down, the desired horizontal displacement of this
\* tick has no component pointing uphill along that slope.
C12_Original ==
    [][UpdateStarts /\ obs.steep # Null =>
         LET upDir == Normalize(projectOnPlane(UP, obs.steep))
         IN Dot(desiredHoriz', upDir) <= 2 * Unit]_vars

\* the nearest fraction in [0, 1]
ClampFrac(f) ==
    IF f[1] < 0 THEN <<0, 1>> ELSE IF f[1] > f[2] THEN <<1, 1>> ELSE f

\* C13 as claimed: the remaining displacement after a wall contact is the
\* one the nearest hit fraction in [0, 1] gives, also when the reported
\* fraction lies outside [0, 1].
C13_Original ==
    [][FirstWallStep =>
         remaining' = WallSlide(remaining, ClampFrac(hit'.hitFraction),
                                FlatNormal(hit'.normal))]_vars

\* C14 as claimed: an update that starts with no setInput call since the
\* previous update applies no input yaw, triggers no jump and computes a
\* zero desired horizontal displacement.
C14_Original ==
    [][UpdateStarts /\ ticks > 0 /\ ~obs.inputSet =>
         /\ ~obs'.jumped
         /\ (~Follows => entityYaw' = entityYaw)
         /\ desiredHoriz' = Zero]_vars

\* the first update of a fresh agent, with dt = 1/60 and no lateral input,
\* whose downward sweep was answered by a contact with flat ground
FirstTickOnFlatGround ==
    /\ TickEnd
    /\ ticks = 1
    /\ obs.velAfterGravity = RDiv(gravity, 60)
    /\ ~obs.horiz.called
    /\ obs.vert.casts = 1
    /\ obs.vert.hits = 1
    /\ hit.normal = UP

\* C15: a freshly initialized agent (velocity 0, airborne, at the origin)
\* whose downward sweep of gravity*dt*dt, dt = 1/60, hits flat walkable
\* ground, with no lateral input, is grounded after one tick, has vertical
\* velocity 0 and is committed at its start height plus hover; the landing
\* ends the vertical pass after that one cast and no snap probe is issued.
C15_Landing ==
    /\ FirstTickOnFlatGround =>
          /\ grounded
          /\ velY = 0
          /\ obs.vert.start = Zero
          /\ entityPos = <<0, hover, 0>>
          /\ ~obs.snapCast
    /\ (pc = "vert" /\ obs.vert.casts = 1 => hit.normal # UP)

\* C15 witness: the fresh agent rested on the ground (hit fraction 0)
C15_Witness ==
    /\ FirstTickOnFlatGround
    /\ hit = GroundRest
    /\ grounded
    /\ entityPos = <<0, hover, 0>>

\* a pass iteration whose cast reports a hit
HitStep == (pc \in {"vert", "horiz"}) /\ IsHit(hit')

\* a vertical-pass iteration, moving down, whose cast reports a steep contact
SteepStep ==
    /\ pc = "vert"
    /\ IsHit(hit')
    /\ remaining[2] < 0
    /\ SlopeDeg(hit'.normal) >= cfg.slopeLimitDeg

ProjVectors ==
    { <<7100, 0, -7100>>, <<0, -273, 0>>, <<10000, 0, 0>>, <<-865, 513, 0>>,
      <<300, -400, 1200>>, <<1, 1, 1>>, Zero }

ProjNormals ==
    { UP, <<0, -100, 0>>, <<-80, 60, 0>>, <<-99, 0, -14>>, <<200, 0, 0>>,
      <<57, 57, 57>>, Zero }

InitProject ==
    /\ cfg = [slopeLimitDeg |-> 5000, groundSnap |-> 30000]
    /\ scene = SceneOpen
    /\ entityPos = Zero
    /\ entityYaw = 0
    /\ velY = 0
    /\ horizontal = 0
    /\ vertical = 0
    /\ jumpPressed = FALSE
    /\ yawDelta = 0
    /\ grounded = FALSE
    /\ wasGrounded = FALSE
    /\ groundEntity = "null"
    /\ groundPrevPos = Zero
    /\ groundPrevRot = Identity
    /\ groundCandidate = "null"
    /\ steepNormal = Null
    /\ platform = [pos |-> Zero, rot |-> Identity]
    /\ pc = "project"
    /\ pos = Zero
    /\ desiredHoriz = Zero
    /\ \E v \in ProjVectors : remaining = v
    /\ i = 0
    /\ wallN1 = Null
    /\ wallN2 = Null
    /\ \E n \in ProjNormals : hit = Hit("plane", n, <<0, 1>>)
    /\ obs = Obs0
    /\ ticks = 0
    /\ moves = 0

ProjectOnce ==
    /\ pc = "project"
    /\ pos' = projectOnPlane(remaining, hit.normal)
    /\ pc' = "projected"
    /\ UNCHANGED <<cfg, scene, entityPos, entityYaw, velY, horizontal, vertical,
                   jumpPressed, yawDelta, grounded, wasGrounded, groundEntity,
                   groundPrevPos, groundPrevRot, groundCandidate, steepNormal,
                   platform, desiredHoriz, remaining, i, wallN1, wallN2, hit,
                   obs, ticks, moves>>

ProjectAgain ==
    /\ pc = "projected"
    /\ desiredHoriz' = projectOnPlane(pos, hit.normal)
    /\ pc' = "twice"
    /\ UNCHANGED <<cfg, scene, entityPos, entityYaw, velY, horizontal, vertical,
                   jumpPressed, yawDelta, grounded, wasGrounded, groundEntity,
                   groundPrevPos, groundPrevRot, groundCandidate, steepNormal,
                   platform, pos, remaining, i, wallN1, wallN2, hit, obs,
                   ticks, moves>>

NextProject == ProjectOnce \/ ProjectAgain

SpecProject == InitProject /\ [][NextProject]_vars

\* C17: projectOnPlane(v, n) leaves v and n as they are; for n with squared
\* length >= 1e-8 the result is v minus its component along n (n (v.n)/|n|^2,
\* each coordinate exact up to rounding), has zero dot product with n (up to
\* half a unit per coordinate) and projecting it again gives the same
\* vector; for n with squared length < 1e-8 the result is v.
C17_ProjectOnPlane ==
    [][LET v == remaining
           n == hit.normal
           m == LengthSq(n)
       IN /\ remaining' = remaining
          /\ hit' = hit
          /\ (pc = "project" /\ ~DirSqLtEPS(m) =>
                /\ \A k \in 1..3 :
                      Abs(m * (v[k] - pos'[k]) - n[k] * Dot(v, n)) <= m
                /\ Abs(Dot(pos', n)) <= Abs(n[1]) + Abs(n[2]) + Abs(n[3]))
          /\ (pc = "project" /\ DirSqLtEPS(m) => pos' = v)
          /\ (pc = "projected" => desiredHoriz' = pos)]_vars

\* C17 witness: a diagonal displacement projected on the plane of a wall
\* normal that is not axis-aligned, and projected again to the same vector
C17_Witness ==
    /\ pc = "twice"
    /\ remaining = <<7100, 0, -7100>>
    /\ hit.normal = <<-99, 0, -14>>
    /\ pos = <<1124, 0, -7945>>
    /\ desiredHoriz = pos

\* the step that ends an update
UpdateEnds == pc = "snap" /\ pc' = "idle"

\* C18: when an update ends, wasGrounded equals grounded; if it ends
\* airborne the remembered ground entity is null; if it ends grounded the
\* remembered entity is the entity of the tick's last grounding contact
\* (horizontal pass after vertical pass, snap probe only when no pass
\* grounded) and the stored position and rotation are that entity's pose.
\* When an update starts, the follower moves the agent if and only if the
\* previous tick ended grounded with a remembered entity.
C18_GroundBookkeeping ==
    [][/\ (UpdateEnds =>
             /\ wasGrounded' = grounded'
             /\ (~grounded' => groundEntity' = "null")
             /\ (grounded' =>
                   /\ groundEntity' # "null"
                   /\ groundEntity' = obs'.walkEntity
                   /\ groundPrevPos' = Pose(groundEntity').pos
                   /\ groundPrevRot' = Pose(groundEntity').rot)
             /\ (obs'.snapWalk => ~obs'.vertWalk /\ ~obs'.horizWalk))
       /\ (UpdateStarts =>
             IF wasGrounded /\ groundEntity # "null"
             THEN LET e == Pose(groundEntity)
                      deltaRot == MatMul(e.rot, Invert(groundPrevRot))
                  IN entityPos' = Add(e.pos, RotY(Sub(entityPos, groundPrevPos),
                                                  EulerY(deltaRot)))
             ELSE /\ entityPos' = entityPos
                  /\ entityYaw' = (entityYaw + yawDelta) % 360)]_vars

\* C18 witness: a tick ended grounded on the platform after the platform had
\* moved and turned, and the stored pose is the platform's
C18_Witness ==
    /\ TickEnd
    /\ grounded
    /\ groundEntity = "platform"
    /\ platform.pos # Zero
    /\ platform.rot # Identity
    /\ groundPrevPos = platform.pos
    /\ groundPrevRot = platform.rot

\* C19 as claimed: on static flat ground with no input, a tick that starts
\* grounded ends grounded, at the height committed by the tick before.
C19_Original ==
    [][UpdateEnds /\ Resting /\ obs.startGrounded =>
         /\ grounded'
         /\ entityPos'[2] = obs.vert.start[2]]_vars

\* C20 as claimed: in a vertical pass that started downward, the remaining
\* displacement after a steep contact has a non-positive vertical
\* component, and the vertical velocity is zeroed within the pass only by a
\* walkable contact met while moving down.
C20_Original ==
    [][/\ (SteepStep /\ pc' = "vert" => remaining'[2] <= 0)
       /\ (pc = "vert" /\ obs.vert.disp[2] < 0 /\ velY # 0 /\ velY' = 0 =>
             /\ remaining[2] < 0
             /\ IsHit(hit')
             /\ SlopeDeg(hit'.normal) < cfg.slopeLimitDeg)]_vars
=============================================================================
